---- MODULE Spec2Model ----
(***************************************************************************)
(* payment-binder: the retrying request engine of BaseAPIClient and the    *)
(* provider adapters PaddleClient and RazorpayClient.                      *)
(*                                                                         *)
(* Encodings.  Optional[T] is a sequence of length <= 1: None is <<>> and  *)
(* a present value v is <<v>>.  A Python dict is a function from its keys. *)
(* A string built by an f-string is the tuple of its parts, the literal    *)
(* text between the fields included: f"{a} {b}" is <<a, " ", b>>, and a    *)
(* plain string in a place that also takes f-strings is a one-part tuple.  *)
(* Durations are counted in half seconds, so the default backoff factor    *)
(* 1.5 s is 3.                                                             *)
(***************************************************************************)
EXTENDS Integers, Sequences, FiniteSets, TLC

VARIABLES
    pyver,      \* the interpreter the package runs on (setup.py: >= 3.10)
    client,     \* the constructed client: class, base_url, api_secret, timeout, headers
    op,         \* the frame of the running adapter operation (or direct call)
    call,       \* the frame of the running _make_request call
    wire,       \* the requests put on the network by the current operation
    given,      \* the function a caller applied by itself, and its argument
    result,     \* what that application gave
    calls       \* the frames of _make_request calls running concurrently

vars == <<pyver, client, op, call, wire, given, result, calls>>

None == <<>>
Some(x) == <<x>>

(***************************************************************************)
(* Bounds of the model.                                                    *)
(***************************************************************************)
MaxRetries == 3

\* backoff factors tried by direct callers, in half seconds (0.5 s, 1.0 s, 1.5 s)
BackoffFactors == {1, 2, 3}

(***************************************************************************)
(* schemas.py                                                              *)
(***************************************************************************)
AuthMethod == {"BASIC", "BEARER", "API_KEY"}

\* the value of an AuthMethod member
AuthValue(m) ==
    CASE m = "BASIC" -> "Basic"
      [] m = "BEARER" -> "Bearer"
      [] m = "API_KEY" -> "ApiKey"

\* str() of an AuthMethod member: Enum.__str__, the class and member name
AuthName(m) ==
    CASE m = "BASIC" -> "AuthMethod.BASIC"
      [] m = "BEARER" -> "AuthMethod.BEARER"
      [] m = "API_KEY" -> "AuthMethod.API_KEY"

APIResponse(success, data, error, raw_response) ==
    [success |-> success, data |-> data, error |-> error,
     raw_response |-> raw_response]

(***************************************************************************)
(* The interpreter.  setup.py admits every Python >= 3.10.  format() of a  *)
(* member of a (str, Enum) class gives the member's value up to 3.10 and   *)
(* str(member) from 3.11 on.                                               *)
(***************************************************************************)
PyVersions == {"3.10", "3.11"}

\* f"{auth_method}" in _build_headers
FormatAuthMethod(m, v) == IF v = "3.10" THEN AuthValue(m) ELSE AuthName(m)

(***************************************************************************)
(* exceptions.py is not part of the sources: APIError carries a message,   *)
(* an optional status code and an optional response text, and str() of it  *)
(* is its message.                                                         *)
(***************************************************************************)
APIError(message, status_code, response_text) ==
    [type |-> "APIError", message |-> message, status_code |-> status_code,
     response_text |-> response_text]

StrException(e) == e.message

\* response.json() on a body that is not JSON raises json.JSONDecodeError
JSONDecodeError ==
    [type |-> "JSONDecodeError", message |-> <<"Expecting value">>,
     status_code |-> None, response_text |-> None]

\* product["data"]["id"] on a body without that key
KeyError(k) ==
    [type |-> "KeyError", message |-> <<k>>, status_code |-> None,
     response_text |-> None]

(***************************************************************************)
(* The provider's side: what one attempt can meet.                         *)
(***************************************************************************)
SuccessStatuses_204 == {200, 201, 202, 204}

SuccessStatuses == {200, 201, 202}
Statuses == {200, 201, 202, 204, 400, 500}

RequestErrors == {"ConnectTimeout", "ConnectError"}

BodyTexts ==
    { "{\"id\":\"r1\"}",
      "{\"data\":{\"id\":\"p1\"}}",
      "{}",
      "<html>Bad Gateway</html>" }

IsJson(text) == text # "<html>Bad Gateway</html>"

EmptyDict == <<>>

\* response.json() of a body that is JSON
JsonLoads(text) ==
    CASE text = "{\"id\":\"r1\"}" -> [id |-> "r1"]
      [] text = "{\"data\":{\"id\":\"p1\"}}" -> [data |-> [id |-> "p1"]]
      [] text = "{}" -> EmptyDict

Outcomes ==
    [kind : {"RequestError"}, exc : RequestErrors]
    \cup [kind : {"response"}, status_code : Statuses, text : BodyTexts]

\* dict.get(k, default)
Get(d, k, default) == IF k \in DOMAIN d THEN d[k] ELSE default

\* dict.get(k): the value, or None
GetOpt(d, k) == IF k \in DOMAIN d THEN Some(d[k]) ELSE None

(***************************************************************************)
(* BaseAPIClient.__init__ and _build_headers                               *)
(***************************************************************************)
DefaultTimeout == 30

_build_headers(auth_method, api_secret, v) ==
    LET headers == [h \in {"Content-Type"} |-> <<"application/json">>] IN
    IF auth_method \in {"BASIC", "BEARER"}
    THEN ("Authorization" :> <<FormatAuthMethod(auth_method, v), " ", api_secret>>)
         @@ headers
    ELSE IF auth_method = "API_KEY"
    THEN ("X-Api-Key" :> <<api_secret>>) @@ headers
    ELSE headers

BaseAPIClient(cls, base_url, api_secret, auth_method, v) ==
    [cls |-> cls, base_url |-> base_url, api_secret |-> api_secret,
     auth_method |-> auth_method, timeout |-> DefaultTimeout,
     headers |-> _build_headers(auth_method, api_secret, v)]

(***************************************************************************)
(* BaseAPIClient._make_request, one frame per call                         *)
(***************************************************************************)
DefaultRetries == 3
DefaultBackoffFactor == 3

RECURSIVE Pow2(_)
Pow2(n) == IF n <= 0 THEN 1 ELSE 2 * Pow2(n - 1)

NoCall ==
    [pc |-> "none", method |-> "", endpoint |-> <<>>, json |-> None,
     retries |-> 0, backoff_factor |-> 0, attempt |-> 0, conn |-> FALSE,
     kinds |-> <<>>, sleeps |-> <<>>, last |-> None, ret |-> None,
     exc |-> None]

\* entry of _make_request: url built, attempt = 0
NewCall(method, endpoint, json, retries, backoff_factor) ==
    [NoCall EXCEPT !.pc = "while", !.method = method, !.endpoint = endpoint,
                   !.json = json, !.retries = retries,
                   !.backoff_factor = backoff_factor]

\* a header added to the client's header map by each attempt
RequestOf_marking(cl, c) ==
    [method |-> c.method, url |-> <<cl.base_url>> \o c.endpoint,
     headers |-> ("X-Attempt" :> <<"n">>) @@ cl.headers, json |-> c.json,
     timeout |-> cl.timeout, attempt |-> c.attempt]

\* the request an attempt sends: client.request(method, url, headers, json)
RequestOf(cl, c) ==
    [method |-> c.method, url |-> <<cl.base_url>> \o c.endpoint,
     headers |-> cl.headers, json |-> c.json, timeout |-> cl.timeout,
     attempt |-> c.attempt]

\* `while attempt < retries`: the loop test, and on entry attempt += 1 and the
\* connection of this attempt is opened; falling out of the loop returns None
WhileTest(c) ==
    IF c.attempt < c.retries
    THEN [c EXCEPT !.pc = "await", !.attempt = c.attempt + 1, !.conn = TRUE]
    ELSE [c EXCEPT !.pc = "returned", !.ret = None]

wait_time_doubled(backoff_factor, attempt) == backoff_factor * Pow2(attempt)

\* wait_time = backoff_factor * (2 ** (attempt - 1))
wait_time(backoff_factor, attempt) == backoff_factor * Pow2(attempt - 1)

OnRequestError_swallowed(c, o) ==
    LET d == [c EXCEPT !.conn = FALSE, !.kinds = Append(c.kinds, "transport"),
                       !.last = Some(o)] IN
    IF c.attempt < c.retries
    THEN [d EXCEPT !.pc = "sleep",
                   !.sleeps = Append(c.sleeps,
                       [after |-> c.attempt,
                        wait |-> wait_time(c.backoff_factor, c.attempt)])]
    ELSE [d EXCEPT !.pc = "while"]

\* the connection of the failed attempt left open
OnRequestError_leak(c, o) ==
    LET d == [c EXCEPT !.kinds = Append(c.kinds, "transport"), !.last = Some(o)] IN
    IF c.attempt < c.retries
    THEN [d EXCEPT !.pc = "sleep",
                   !.sleeps = Append(c.sleeps,
                       [after |-> c.attempt,
                        wait |-> wait_time(c.backoff_factor, c.attempt)])]
    ELSE [d EXCEPT !.pc = "raised",
                   !.exc = Some(APIError(<<"Request error after retries: ", o.exc>>,
                                         None, None))]

\* except httpx.RequestError
OnRequestError(c, o) ==
    LET d == [c EXCEPT !.conn = FALSE, !.kinds = Append(c.kinds, "transport"),
                       !.last = Some(o)] IN
    IF c.attempt < c.retries
    THEN [d EXCEPT !.pc = "sleep",
                   !.sleeps = Append(c.sleeps,
                       [after |-> c.attempt,
                        wait |-> wait_time(c.backoff_factor, c.attempt)])]
    ELSE [d EXCEPT !.pc = "raised",
                   !.exc = Some(APIError(<<"Request error after retries: ", o.exc>>,
                                         None, None))]

\* a decode failure handled like a request error: backed off and retried
OnSuccessStatus_retrying(c, o) ==
    IF IsJson(o.text)
    THEN [c EXCEPT !.conn = FALSE, !.last = Some(o), !.pc = "returned",
                   !.kinds = Append(c.kinds, "ok"),
                   !.ret = Some(JsonLoads(o.text))]
    ELSE [OnRequestError(c, [kind |-> "RequestError", exc |-> "DecodingError"])
             EXCEPT !.last = Some(o)]

\* status in (200, 201, 202): return response.json()
OnSuccessStatus(c, o) ==
    LET d == [c EXCEPT !.conn = FALSE, !.last = Some(o)] IN
    IF IsJson(o.text)
    THEN [d EXCEPT !.pc = "returned", !.kinds = Append(c.kinds, "ok"),
                   !.ret = Some(JsonLoads(o.text))]
    ELSE [d EXCEPT !.pc = "raised", !.kinds = Append(c.kinds, "decode"),
                   !.exc = Some(JSONDecodeError)]

\* a status failure backed off like a transport failure
OnFailureStatus_backoff(c, o) ==
    LET d == [c EXCEPT !.conn = FALSE, !.kinds = Append(c.kinds, "status"),
                       !.last = Some(o)] IN
    IF c.attempt >= c.retries
    THEN [d EXCEPT !.pc = "raised",
                   !.exc = Some(APIError(<<"API call failed after retries">>,
                                         Some(o.status_code), Some(o.text)))]
    ELSE [d EXCEPT !.pc = "sleep",
                   !.sleeps = Append(c.sleeps,
                       [after |-> c.attempt,
                        wait |-> wait_time(c.backoff_factor, c.attempt)])]

\* the last-attempt test off by one: `attempt > retries`
OnFailureStatus_late(c, o) ==
    LET d == [c EXCEPT !.conn = FALSE, !.kinds = Append(c.kinds, "status"),
                       !.last = Some(o)] IN
    IF c.attempt > c.retries
    THEN [d EXCEPT !.pc = "raised",
                   !.exc = Some(APIError(<<"API call failed after retries">>,
                                         Some(o.status_code), Some(o.text)))]
    ELSE [d EXCEPT !.pc = "while"]

\* any other status: raise on the last attempt, else straight to the loop test
OnFailureStatus(c, o) ==
    LET d == [c EXCEPT !.conn = FALSE, !.kinds = Append(c.kinds, "status"),
                       !.last = Some(o)] IN
    IF c.attempt >= c.retries
    THEN [d EXCEPT !.pc = "raised",
                   !.exc = Some(APIError(<<"API call failed after retries">>,
                                         Some(o.status_code), Some(o.text)))]
    ELSE [d EXCEPT !.pc = "while"]

\* the end of `await client.request(...)` with outcome o
OnOutcome(c, o) ==
    IF o.kind = "RequestError" THEN OnRequestError(c, o)
    ELSE IF o.status_code \in SuccessStatuses THEN OnSuccessStatus(c, o)
    ELSE OnFailureStatus(c, o)

\* the end of `await asyncio.sleep(wait_time)`
AfterSleep(c) == [c EXCEPT !.pc = "while"]

CallEnded(c) == c.pc \in {"returned", "raised"}

(***************************************************************************)
(* The callers' inputs: UserData, PlanSchema, identifiers, the clock.      *)
(***************************************************************************)
Users ==
    { [email |-> "a@b.com", firstName |-> "A", lastName |-> "B"],
      [email |-> "c@d.org", firstName |-> "Cy", lastName |-> "Dee"] }

Plans ==
    { [id |-> 7, psp_price_id |-> "pri_1", name |-> "Pro",
       description |-> Some("Pro plan"), amount |-> 1999,
       currency |-> Some("EUR"), billing_cycle |-> "Yearly"],
      [id |-> 12, psp_price_id |-> "pri_2", name |-> "Basic",
       description |-> None, amount |-> 500,
       currency |-> None, billing_cycle |-> "weekly"] }

Ids == {"sub_1"}

Clock == {1700000000}

Args == [plan : Plans, user : Users, id : Ids, now : Clock]

\* str() of a plan id
Str(n) == CASE n = 7 -> "7" [] n = 12 -> "12"

\* int() of an amount, held in hundredths: truncation
IntOf(amount) == amount \div 100

\* x or y, for an optional x
OrElse(x, y) == IF x = None THEN y ELSE x[1]

\* str.lower()
Lower(s) ==
    CASE s = "Yearly" -> "yearly"
      [] s = "YEARLY" -> "yearly"
      [] s = "Monthly" -> "monthly"
      [] s = "Daily" -> "daily"
      [] s = "Weekly" -> "weekly"
      [] OTHER -> s

(***************************************************************************)
(* The frame of an adapter operation.                                      *)
(***************************************************************************)
Idle ==
    [name |-> "", pc |-> "idle", step |-> 0, args |-> None, product |-> None,
     received |-> FALSE, ret |-> None, exc |-> None]

NewOp(name, a) ==
    [Idle EXCEPT !.name = name, !.pc = "call", !.step = 1, !.args = Some(a)]

\* return of an APIResponse to the caller
Return(o, resp) == [o EXCEPT !.pc = "returned", !.ret = Some(resp)]

\* an exception leaves the operation
Raise(o, e) == [o EXCEPT !.pc = "raised", !.exc = Some(e)]

invoke_once(method, endpoint, json) ==
    NewCall(method, endpoint, json, 1, DefaultBackoffFactor)

\* the operations call _make_request with the default retry policy
invoke(method, endpoint, json) ==
    NewCall(method, endpoint, json, DefaultRetries, DefaultBackoffFactor)

\* what an operation does next: its frame and the call it makes, if any
Then(o, c) == [op |-> o, call |-> c]

ExceptNothing(o, e) == Raise(o, e)

ExceptWithData(o, e) ==
    IF e.type = "APIError"
    THEN Return(o, APIResponse(FALSE, Some(EmptyDict), Some(StrException(e)), None))
    ELSE Raise(o, e)

\* except APIError as e: return APIResponse(success=False, error=str(e))
ExceptAPIError(o, e) ==
    IF e.type = "APIError"
    THEN Return(o, APIResponse(FALSE, None, Some(StrException(e)), None))
    ELSE Raise(o, e)

SuccessWithoutRaw(o, data, raw) == Return(o, APIResponse(TRUE, Some(data), None, None))

\* return APIResponse(success=True, data=..., raw_response=...)
Success(o, data, raw) == Return(o, APIResponse(TRUE, Some(data), None, Some(raw)))

(***************************************************************************)
(* paddle.py: PaddleClient.  Each operation is its request and what it     *)
(* does with the decoded response.                                         *)
(***************************************************************************)
paddle_api_base_url == "https://api.paddle.test"
paddle_api_secret == "paddle_cfg_secret"

\* response.get("data", {}).get(k)
DataGet(response, k) == GetOpt(Get(response, "data", EmptyDict), k)

\* whether d["data"]["id"] exists
HasDataId(d) == "data" \in DOMAIN d /\ "id" \in DOMAIN d.data

Paddle_create_transaction(a) ==
    invoke("POST", <<"/transactions">>,
           Some([items |-> <<[price_id |-> a.plan.psp_price_id, quantity |-> 1]>>,
                 customer |-> [email |-> a.user.email],
                 custom_data |-> [plan_id |-> Str(a.plan.id),
                                  subscription_id |-> a.id]]))

Paddle_create_transaction_ok(o, response) ==
    Then(Success(o, [transaction_id |-> DataGet(response, "id"),
                     checkout_url |-> DataGet(response, "checkout_url")],
                 response),
         NoCall)

Paddle_map_billing_cycle(billing_cycle) ==
    LET mapping == [daily |-> "day", weekly |-> "week", monthly |-> "month",
                    yearly |-> "year"] IN
    Get(mapping, Lower(billing_cycle), "month")

\* create_plan, first step: the product
Paddle_create_plan(a) ==
    invoke("POST", <<"/products">>,
           Some([name |-> a.plan.name, tax_category |-> "digital-goods",
                 description |-> OrElse(a.plan.description, a.plan.name)]))

Paddle_price_payload_local(a, product) ==
    [name |-> a.plan.name,
     product_id |-> a.plan.psp_price_id,
     description |-> OrElse(a.plan.description, a.plan.name),
     unit_price |-> [amount |-> a.plan.amount,
                     currency_code |-> OrElse(a.plan.currency, "USD")],
     billing_cycle |-> [interval |-> Paddle_map_billing_cycle(a.plan.billing_cycle),
                        frequency |-> 1],
     tax_mode |-> "account_setting",
     quantity |-> [minimum |-> 1, maximum |-> 1]]

Paddle_price_payload(a, product) ==
    [name |-> a.plan.name,
     product_id |-> product.data.id,
     description |-> OrElse(a.plan.description, a.plan.name),
     unit_price |-> [amount |-> a.plan.amount,
                     currency_code |-> OrElse(a.plan.currency, "USD")],
     billing_cycle |-> [interval |-> Paddle_map_billing_cycle(a.plan.billing_cycle),
                        frequency |-> 1],
     tax_mode |-> "account_setting",
     quantity |-> [minimum |-> 1, maximum |-> 1]]

\* create_plan, after the product call returned: the price
Paddle_create_plan_product(o, product) ==
    IF HasDataId(product)
    THEN Then([o EXCEPT !.step = 2, !.product = Some(product)],
              invoke("POST", <<"/prices">>,
                     Some(Paddle_price_payload(o.args[1], product))))
    ELSE Then(Raise(o, KeyError(IF "data" \in DOMAIN product THEN "id" ELSE "data")),
              NoCall)

\* create_plan, after the price call returned
Paddle_create_plan_price(o, price) ==
    IF HasDataId(price)
    THEN Then(Success(o, [product_id |-> o.product[1].data.id,
                          price_id |-> price.data.id],
                      [product |-> o.product[1], price |-> price]),
              NoCall)
    ELSE Then(Raise(o, KeyError(IF "data" \in DOMAIN price THEN "id" ELSE "data")),
              NoCall)

Paddle_get_transaction_invoice(a) ==
    invoke("GET", <<"/transactions/", a.id, "/invoice">>, None)

Paddle_get_transaction_invoice_ok(o, response) ==
    Then(Success(o, [invoice_url |-> DataGet(response, "invoice_url"),
                     invoice_id |-> DataGet(response, "id")],
                 response),
         NoCall)

Paddle_normalize_subscription_details_last(subscription_data) ==
    [id |-> GetOpt(subscription_data, "id"),
     status |-> GetOpt(subscription_data, "status"),
     created_at |-> GetOpt(subscription_data, "created_at"),
     next_billing_date |-> GetOpt(subscription_data, "next_billed_at"),
     plan_id |-> IF Get(subscription_data, "items", <<>>) # <<>>
                 THEN GetOpt(subscription_data.items[Len(subscription_data.items)],
                             "price_id")
                 ELSE None,
     customer_id |-> GetOpt(subscription_data, "customer_id")]

Paddle_normalize_subscription_details(subscription_data) ==
    [id |-> GetOpt(subscription_data, "id"),
     status |-> GetOpt(subscription_data, "status"),
     created_at |-> GetOpt(subscription_data, "created_at"),
     next_billing_date |-> GetOpt(subscription_data, "next_billed_at"),
     plan_id |-> IF Get(subscription_data, "items", <<>>) # <<>>
                 THEN GetOpt(Get(subscription_data, "items", <<EmptyDict>>)[1],
                             "price_id")
                 ELSE None,
     customer_id |-> GetOpt(subscription_data, "customer_id")]

Paddle_get_subscription_details(a) ==
    invoke("GET", <<"/subscriptions/", a.id>>, None)

Paddle_get_subscription_details_ok(o, response) ==
    Then(Success(o, Paddle_normalize_subscription_details(
                        Get(response, "data", EmptyDict)),
                 response),
         NoCall)

Paddle_end_subscription(a) ==
    invoke("POST", <<"/subscriptions/", a.id, "/cancel">>,
           Some([effective_from |-> "next_billing_period"]))

Paddle_end_subscription_ok(o, response) ==
    Then(Success(o, [subscription_id |-> o.args[1].id, status |-> "cancelled"],
                 response),
         NoCall)

Paddle_create_customer(a) ==
    invoke("POST", <<"/customers">>,
           Some([email |-> a.user.email,
                 name |-> <<a.user.firstName, " ", a.user.lastName>>]))

Paddle_create_customer_ok(o, response) ==
    Then(Success(o, [customer_id |-> DataGet(response, "id")], response), NoCall)

(***************************************************************************)
(* razorpay.py: RazorpayClient                                             *)
(***************************************************************************)
razorpay_api_base_url == "https://api.razorpay.test"
razorpay_api_secret == "razorpay_cfg_secret"

TotalCount == 100
TwoDays == 172800

\* DateHelper is not part of the sources: a time is held as its epoch seconds
convert_date_to_epoch(t) == t

\* datetime.fromtimestamp(n, tz=timezone.utc)
FromTimestamp(n) == [epoch |-> n, tzinfo |-> "UTC"]

Razorpay_create_customer(a) ==
    invoke("POST", <<"/customers">>,
           Some([name |-> <<a.user.firstName, " ", a.user.lastName>>,
                 email |-> a.user.email,
                 fail_existing |-> 0]))

Razorpay_create_customer_ok_data(o, response) ==
    Then(Success(o, [customer_id |-> DataGet(response, "id")], response), NoCall)

Razorpay_create_customer_ok(o, response) ==
    Then(Success(o, [customer_id |-> GetOpt(response, "id")], response), NoCall)

Razorpay_subscription_payload_anonymous(a, customer_id) ==
    [plan_id |-> a.plan.psp_price_id,
     total_count |-> TotalCount,
     quantity |-> 1,
     customer_notify |-> 1,
     customer_id |-> None,
     notes |-> [internal_subscription_id |-> a.id, plan_id |-> Str(a.plan.id)]]

Razorpay_subscription_payload(a, customer_id) ==
    [plan_id |-> a.plan.psp_price_id,
     total_count |-> TotalCount,
     quantity |-> 1,
     customer_notify |-> 1,
     customer_id |-> customer_id,
     notes |-> [internal_subscription_id |-> a.id, plan_id |-> Str(a.plan.id)]]

\* create_transaction, first step: create_customer, whose call this is
Razorpay_create_transaction(a) == Razorpay_create_customer(a)

\* create_transaction, after create_customer's call ended in frame c:
\* create_customer returns its result (or lets a non-APIError through), and
\* create_transaction returns a failed result as it is or creates the subscription
Razorpay_create_transaction_customer(o, c) ==
    LET inner == IF c.pc = "returned"
                 THEN Razorpay_create_customer_ok(o, c.ret[1]).op
                 ELSE ExceptAPIError(o, c.exc[1]) IN
    IF inner.pc = "raised"
    THEN Then(ExceptAPIError(o, inner.exc[1]), NoCall)
    ELSE LET customer_response == inner.ret[1] IN
         IF ~customer_response.success
         THEN Then(Return(o, customer_response), NoCall)
         ELSE Then([o EXCEPT !.step = 2],
                   invoke("POST", <<"/subscriptions">>,
                          Some(Razorpay_subscription_payload(
                                   o.args[1],
                                   customer_response.data[1].customer_id))))

\* create_transaction, after the subscription call returned
Razorpay_create_transaction_ok(o, response) ==
    Then(Success(o, [subscription_id |-> GetOpt(response, "id"),
                     invoice_id |-> GetOpt(response, "invoice_id"),
                     checkout_url |-> GetOpt(response, "short_url")],
                 response),
         NoCall)

Razorpay_map_billing_cycle(billing_cycle) ==
    LET mapping == [daily |-> "daily", weekly |-> "weekly",
                    monthly |-> "monthly", yearly |-> "yearly"] IN
    Get(mapping, Lower(billing_cycle), "monthly")

Razorpay_create_plan(a) ==
    invoke("POST", <<"/plans">>,
           Some([period |-> Razorpay_map_billing_cycle(a.plan.billing_cycle),
                 interval |-> 1,
                 item |-> [name |-> a.plan.name,
                           amount |-> IntOf(a.plan.amount),
                           currency |-> OrElse(a.plan.currency, "USD"),
                           description |-> OrElse(a.plan.description, a.plan.name)]]))

Razorpay_create_plan_ok(o, response) ==
    Then(Success(o, [plan_id |-> GetOpt(response, "id")], response), NoCall)

Razorpay_get_transaction_invoice(a) == invoke("GET", <<"/invoices/", a.id>>, None)

Razorpay_get_transaction_invoice_ok(o, response) ==
    Then(Success(o, [invoice_url |-> GetOpt(response, "short_url"),
                     invoice_id |-> GetOpt(response, "id"),
                     status |-> GetOpt(response, "status")],
                 response),
         NoCall)

Razorpay_issue_invoice(a) == invoke("POST", <<"/invoices/", a.id, "/issue">>, None)

Razorpay_issue_invoice_ok(o, response) ==
    Then(Success(o, [invoice_id |-> GetOpt(response, "id"),
                     status |-> GetOpt(response, "status")],
                 response),
         NoCall)

\* draft_invoice(customer_id, plan_name, plan_amount, plan_currency, plan_description)
Razorpay_draft_invoice(a) ==
    invoke("POST", <<"/invoices">>,
           Some([type |-> "invoice",
                 date |-> convert_date_to_epoch(a.now),
                 customer_id |-> a.id,
                 line_items |-> <<[name |-> a.plan.name,
                                   description |-> a.plan.description,
                                   amount |-> a.plan.amount,
                                   currency |-> a.plan.currency]>>,
                 expire_by |-> convert_date_to_epoch(a.now + TwoDays),
                 draft |-> 1]))

Razorpay_draft_invoice_ok(o, response) ==
    Then(Success(o, [invoice_id |-> GetOpt(response, "id"),
                     status |-> GetOpt(response, "status")],
                 response),
         NoCall)

Razorpay_normalize_subscription_details(subscription_data) ==
    [id |-> GetOpt(subscription_data, "id"),
     status |-> GetOpt(subscription_data, "status"),
     created_at |-> FromTimestamp(Get(subscription_data, "created_at", 0)),
     next_billing_date |-> FromTimestamp(Get(subscription_data, "current_end", 0)),
     plan_id |-> GetOpt(subscription_data, "plan_id"),
     customer_id |-> GetOpt(subscription_data, "customer_id")]

Razorpay_get_subscription_details(a) ==
    invoke("GET", <<"/subscriptions/", a.id>>, None)

Razorpay_get_subscription_details_ok(o, response) ==
    Then(Success(o, Razorpay_normalize_subscription_details(response), response),
         NoCall)

Razorpay_end_subscription(a) ==
    invoke("POST", <<"/subscriptions/", a.id, "/cancel">>,
           Some([cancel_at_cycle_end |-> TRUE]))

Razorpay_end_subscription_ok(o, response) ==
    Then(Success(o, [subscription_id |-> o.args[1].id,
                     status |-> GetOpt(response, "status")],
                 response),
         NoCall)

Razorpay_get_payment_downtimes(a) == invoke("GET", <<"/payments/downtimes">>, None)

Razorpay_get_payment_downtimes_ok(o, response) ==
    Then(Success(o, [downtimes |-> Get(response, "items", <<>>)], response), NoCall)

(***************************************************************************)
(* Clients as constructed, and the operations a caller can start on them.  *)
(***************************************************************************)
Secrets == {"abc", "k-2"}

PaddleClient(api_secret, v) ==
    BaseAPIClient("PaddleClient", paddle_api_base_url,
                  OrElse(api_secret, paddle_api_secret), "BEARER", v)

RazorpayClient(api_secret, v) ==
    BaseAPIClient("RazorpayClient", razorpay_api_base_url,
                  OrElse(api_secret, razorpay_api_secret), "BASIC", v)

Clients(v) ==
    {PaddleClient(s, v) : s \in {None, Some("abc")}}
    \cup {RazorpayClient(s, v) : s \in {None, Some("abc")}}
    \cup {BaseAPIClient("BaseAPIClient", "https://api.example.test", s, m, v) :
              s \in Secrets, m \in AuthMethod}

\* the Provider Contract (PaymentProvider)
ContractOps ==
    {"create_transaction", "create_plan", "get_transaction_invoice",
     "get_subscription_details", "end_subscription", "create_customer"}

OpsOf(cls) ==
    CASE cls = "PaddleClient" -> ContractOps
      [] cls = "RazorpayClient" ->
            ContractOps \cup {"issue_invoice", "draft_invoice", "get_payment_downtimes"}
      [] OTHER -> {}

DefaultArgs == CHOOSE a \in Args : TRUE

\* the arguments an operation reads vary; the others are held fixed
ArgsOf(name) ==
    {a \in Args :
        /\ name \notin {"create_transaction", "create_customer"}
              => a.user = DefaultArgs.user
        /\ name \notin {"create_transaction", "create_plan", "draft_invoice"}
              => a.plan = DefaultArgs.plan}

\* the first _make_request call of an operation
FirstCall(cls, name, a) ==
    IF cls = "PaddleClient"
    THEN CASE name = "create_transaction" -> Paddle_create_transaction(a)
           [] name = "create_plan" -> Paddle_create_plan(a)
           [] name = "get_transaction_invoice" -> Paddle_get_transaction_invoice(a)
           [] name = "get_subscription_details" -> Paddle_get_subscription_details(a)
           [] name = "end_subscription" -> Paddle_end_subscription(a)
           [] name = "create_customer" -> Paddle_create_customer(a)
    ELSE CASE name = "create_transaction" -> Razorpay_create_transaction(a)
           [] name = "create_plan" -> Razorpay_create_plan(a)
           [] name = "get_transaction_invoice" -> Razorpay_get_transaction_invoice(a)
           [] name = "issue_invoice" -> Razorpay_issue_invoice(a)
           [] name = "draft_invoice" -> Razorpay_draft_invoice(a)
           [] name = "get_subscription_details" -> Razorpay_get_subscription_details(a)
           [] name = "end_subscription" -> Razorpay_end_subscription(a)
           [] name = "create_customer" -> Razorpay_create_customer(a)
           [] name = "get_payment_downtimes" -> Razorpay_get_payment_downtimes(a)

\* what the operation does with the decoded response of its current call
OnReturn(cls, o, response) ==
    IF cls = "PaddleClient"
    THEN CASE o.name = "create_transaction" -> Paddle_create_transaction_ok(o, response)
           [] o.name = "create_plan" /\ o.step = 1 -> Paddle_create_plan_product(o, response)
           [] o.name = "create_plan" /\ o.step = 2 -> Paddle_create_plan_price(o, response)
           [] o.name = "get_transaction_invoice" ->
                 Paddle_get_transaction_invoice_ok(o, response)
           [] o.name = "get_subscription_details" ->
                 Paddle_get_subscription_details_ok(o, response)
           [] o.name = "end_subscription" -> Paddle_end_subscription_ok(o, response)
           [] o.name = "create_customer" -> Paddle_create_customer_ok(o, response)
    ELSE CASE o.name = "create_transaction" -> Razorpay_create_transaction_ok(o, response)
           [] o.name = "create_plan" -> Razorpay_create_plan_ok(o, response)
           [] o.name = "get_transaction_invoice" ->
                 Razorpay_get_transaction_invoice_ok(o, response)
           [] o.name = "issue_invoice" -> Razorpay_issue_invoice_ok(o, response)
           [] o.name = "draft_invoice" -> Razorpay_draft_invoice_ok(o, response)
           [] o.name = "get_subscription_details" ->
                 Razorpay_get_subscription_details_ok(o, response)
           [] o.name = "end_subscription" -> Razorpay_end_subscription_ok(o, response)
           [] o.name = "create_customer" -> Razorpay_create_customer_ok(o, response)
           [] o.name = "get_payment_downtimes" ->
                 Razorpay_get_payment_downtimes_ok(o, response)

\* whether a response (of any status) came back on some attempt of call c
GotResponse(c) == \E i \in 1..Len(c.kinds) : c.kinds[i] # "transport"

\* the operation takes over when its _make_request call has ended in frame c
Resume(cls, o, c) ==
    IF o.name = "_make_request"
    THEN Then([o EXCEPT !.pc = c.pc, !.exc = c.exc], NoCall)
    ELSE IF cls = "RazorpayClient" /\ o.name = "create_transaction" /\ o.step = 1
    THEN Razorpay_create_transaction_customer(o, c)
    ELSE IF c.pc = "raised"
    THEN Then(ExceptAPIError(o, c.exc[1]), NoCall)
    ELSE OnReturn(cls, o, c.ret[1])

(***************************************************************************)
(* The inputs of the functions a caller can apply by themselves:           *)
(* _map_billing_cycle, _normalize_subscription_details, and what           *)
(* get_subscription_details makes of a decoded response.                   *)
(***************************************************************************)
\* schemas.py BillingCycle(str, Enum): a member is a str equal to its value,
\* so str methods (lower) and dict lookups see the value
BillingCycle == {"day", "week", "month", "year"}

\* the keys of the adapters' mapping tables
CycleNames == {"daily", "weekly", "monthly", "yearly"}

CycleInputs ==
    BillingCycle \cup CycleNames
    \cup {"Daily", "Weekly", "Monthly", "Yearly", "YEARLY", "quarterly", ""}

map_billing_cycle(cls, billing_cycle) ==
    IF cls = "PaddleClient"
    THEN Paddle_map_billing_cycle(billing_cycle)
    ELSE Razorpay_map_billing_cycle(billing_cycle)

Opt(S) == {None} \cup {Some(x) : x \in S}

\* the dict of the fields of r that are present
Dict(r) == [k \in {f \in DOMAIN r : r[f] # None} |-> r[k][1]]

\* a str holding an ISO-8601 time, as Paddle sends it
IsoTime(text) == [iso8601 |-> text]

ItemLists ==
    { <<>>,
      <<[quantity |-> 1]>>,
      <<[price_id |-> "pri_1", quantity |-> 1]>>,
      <<[price_id |-> "pri_2", quantity |-> 1], [price_id |-> "pri_1", quantity |-> 2]>> }

\* Paddle's subscription entity, every field optional
PaddleSubscriptions ==
    { Dict(r) : r \in [id : Opt({"sub_1"}),
                       status : Opt({"active"}),
                       created_at : Opt({IsoTime("2024-05-01T10:00:00Z")}),
                       next_billed_at : Opt({IsoTime("2024-06-01T10:00:00Z")}),
                       items : Opt(ItemLists),
                       customer_id : Opt({"ctm_1"})] }

\* Razorpay's subscription entity, every field optional; times in epoch seconds
RazorpaySubscriptions ==
    { Dict(r) : r \in [id : Opt({"sub_1"}),
                       status : Opt({"active"}),
                       created_at : Opt({1700000000}),
                       current_end : Opt({1702592000}),
                       plan_id : Opt({"plan_1"}),
                       customer_id : Opt({"cust_1"})] }

Subscriptions(cls) ==
    IF cls = "PaddleClient" THEN PaddleSubscriptions ELSE RazorpaySubscriptions

\* the decoded bodies of GET /subscriptions/{id}
SubscriptionResponses(cls) ==
    IF cls = "PaddleClient"
    THEN {EmptyDict} \cup {[data |-> d] : d \in PaddleSubscriptions}
    ELSE RazorpaySubscriptions

normalize_subscription_details(cls, subscription_data) ==
    IF cls = "PaddleClient"
    THEN Paddle_normalize_subscription_details(subscription_data)
    ELSE Razorpay_normalize_subscription_details(subscription_data)

\* get_subscription_details from the return of its _make_request call on
get_subscription_details_ok(cls, a, response) ==
    LET o == NewOp("get_subscription_details", a) IN
    IF cls = "PaddleClient"
    THEN Paddle_get_subscription_details_ok(o, response).op
    ELSE Razorpay_get_subscription_details_ok(o, response).op

NotApplied == [fn |-> "", arg |-> None]

(***************************************************************************)
(* The state machine.                                                      *)
(***************************************************************************)
Init ==
    /\ pyver \in PyVersions
    /\ client \in Clients(pyver)
    /\ op = Idle
    /\ call = NoCall
    /\ wire = <<>>
    /\ given = NotApplied
    /\ result = None
    /\ calls = <<>>

OpOver == op.pc \in {"idle", "returned", "raised"}

\* a caller starts an operation of the adapter
StartOperation ==
    /\ OpOver
    /\ \E name \in OpsOf(client.cls) : \E a \in ArgsOf(name) :
          /\ op' = NewOp(name, a)
          /\ call' = FirstCall(client.cls, name, a)
    /\ wire' = <<>>
    /\ UNCHANGED <<given, result, calls, pyver, client>>

\* a caller calls _make_request itself, with a retry policy of its own
StartRequest ==
    /\ OpOver
    /\ client.cls = "BaseAPIClient"
    /\ \E retries \in 0..MaxRetries : \E backoff_factor \in BackoffFactors :
          call' = NewCall("GET", <<"/ping">>, None, retries, backoff_factor)
    /\ op' = [Idle EXCEPT !.name = "_make_request", !.pc = "call", !.step = 1]
    /\ wire' = <<>>
    /\ UNCHANGED <<given, result, calls, pyver, client>>

\* the loop test of _make_request, and the request of the attempt it enters
Attempt ==
    /\ call.pc = "while"
    /\ call' = WhileTest(call)
    /\ wire' = IF call'.pc = "await"
               THEN Append(wire, RequestOf(client, call'))
               ELSE wire
    /\ UNCHANGED <<given, result, calls, pyver, client, op>>

\* the network answers the attempt, or fails it
Respond ==
    /\ call.pc = "await"
    /\ \E o \in Outcomes : call' = OnOutcome(call, o)
    /\ UNCHANGED <<given, result, calls, pyver, client, op, wire>>

\* the backoff sleep ends
Wake ==
    /\ call.pc = "sleep"
    /\ call' = AfterSleep(call)
    /\ UNCHANGED <<given, result, calls, pyver, client, op, wire>>

\* _make_request has returned or raised: the operation goes on
Continue ==
    /\ op.pc = "call"
    /\ CallEnded(call)
    /\ LET r == Resume(client.cls, op, call) IN
          /\ op' = [r.op EXCEPT !.received = op.received \/ GotResponse(call)]
          /\ call' = r.call
    /\ UNCHANGED <<given, result, calls, pyver, client, wire>>

Next ==
    \/ StartOperation
    \/ StartRequest
    \/ Attempt
    \/ Respond
    \/ Wake
    \/ Continue

Spec == Init /\ [][Next]_vars

(***************************************************************************)
(* Direct _make_request calls alone, with the scheduling the runtime       *)
(* gives: the event loop runs a coroutine that is ready (Attempt), every   *)
(* request ends within the client's timeout, answered or failed with       *)
(* httpx.TimeoutException, a RequestError (Respond), and asyncio.sleep     *)
(* ends (Wake).                                                            *)
(***************************************************************************)
RequestInit ==
    /\ Init
    /\ client.cls = "BaseAPIClient"

RequestNext ==
    \/ StartRequest
    \/ Attempt
    \/ Respond
    \/ Wake
    \/ Continue

RequestSpec ==
    /\ RequestInit
    /\ [][RequestNext]_vars
    /\ WF_vars(Attempt)
    /\ WF_vars(Respond)
    /\ WF_vars(Wake)

(***************************************************************************)
(* A caller applying the adapters' pure functions to inputs of its own.    *)
(***************************************************************************)
FunctionInit ==
    /\ pyver \in PyVersions
    /\ client \in {c \in Clients(pyver) : c.cls # "BaseAPIClient"}
    /\ op = Idle
    /\ call = NoCall
    /\ wire = <<>>
    /\ given = NotApplied
    /\ result = None
    /\ calls = <<>>

MapBillingCycle ==
    /\ \E billing_cycle \in CycleInputs :
          /\ given' = [fn |-> "_map_billing_cycle", arg |-> billing_cycle]
          /\ result' = map_billing_cycle(client.cls, billing_cycle)
    /\ UNCHANGED <<pyver, client, op, call, wire, calls>>

NormalizeSubscription ==
    /\ \E subscription_data \in Subscriptions(client.cls) :
          /\ given' = [fn |-> "_normalize_subscription_details",
                       arg |-> subscription_data]
          /\ result' = normalize_subscription_details(client.cls, subscription_data)
    /\ UNCHANGED <<pyver, client, op, call, wire, calls>>

\* get_subscription_details once its request has returned a decoded body
SubscriptionDetails ==
    /\ \E response \in SubscriptionResponses(client.cls) :
          /\ given' = [fn |-> "get_subscription_details", arg |-> response]
          /\ result' = get_subscription_details_ok(client.cls, DefaultArgs, response)
    /\ UNCHANGED <<pyver, client, op, call, wire, calls>>

FunctionNext ==
    \/ MapBillingCycle
    \/ NormalizeSubscription
    \/ SubscriptionDetails

FunctionSpec == FunctionInit /\ [][FunctionNext]_vars

(***************************************************************************)
(* Several _make_request calls running at once on one client, as asyncio   *)
(* tasks: a task is switched out only at its awaits, the request of an     *)
(* attempt and the backoff sleep.  Each call keeps url and attempt in      *)
(* locals of its own coroutine frame; the client is only read.             *)
(***************************************************************************)
NumCalls == 2

\* the retry policies the concurrent callers pass
Policies ==
    { [retries |-> 2, backoff_factor |-> 1],
      [retries |-> DefaultRetries, backoff_factor |-> DefaultBackoffFactor] }

\* what the network does to an attempt: a transport error, a failure status,
\* a success status with a JSON body, a success status with a body that is not
TaskOutcomes ==
    { [kind |-> "RequestError", exc |-> "ConnectError"],
      [kind |-> "response", status_code |-> 500, text |-> "{}"],
      [kind |-> "response", status_code |-> 200, text |-> "{\"id\":\"r1\"}"],
      [kind |-> "response", status_code |-> 200, text |-> "<html>Bad Gateway</html>"] }

\* a task: the frame of its call, the requests it has sent, the outcomes it got
NoTask == [frame |-> NoCall, sent |-> <<>>, outs |-> <<>>]

Step_shared(cs, i, f) ==
    [j \in DOMAIN cs |->
        IF j = i THEN [cs[j] EXCEPT !.frame = f]
        ELSE IF cs[j].frame.pc \notin {"none", "returned", "raised"}
        THEN [cs[j] EXCEPT !.frame.attempt = f.attempt]
        ELSE cs[j]]

\* a step of task i writes the locals of its own frame and nothing else
Step(cs, i, f) == [cs EXCEPT ![i].frame = f]

TaskInit ==
    /\ pyver \in PyVersions
    /\ client = BaseAPIClient("BaseAPIClient", "https://api.example.test", "abc",
                              "BEARER", pyver)
    /\ op = Idle
    /\ call = NoCall
    /\ wire = <<>>
    /\ given = NotApplied
    /\ result = None
    /\ calls = [i \in 1..NumCalls |-> NoTask]

\* task i enters _make_request
TaskBegin ==
    /\ \E i \in DOMAIN calls : \E p \in Policies :
          /\ calls[i].frame.pc = "none"
          /\ calls' = Step(calls, i, NewCall("GET", <<"/ping">>, None,
                                             p.retries, p.backoff_factor))
    /\ UNCHANGED <<pyver, client, op, call, wire, given, result>>

\* task i tests its loop condition and sends the request of the attempt
TaskAttempt ==
    /\ \E i \in DOMAIN calls :
          /\ calls[i].frame.pc = "while"
          /\ LET f == WhileTest(calls[i].frame)
                 cs == Step(calls, i, f)
             IN calls' = IF f.pc = "await"
                         THEN [cs EXCEPT ![i].sent = Append(@, RequestOf(client, cs[i].frame))]
                         ELSE cs
    /\ UNCHANGED <<pyver, client, op, call, wire, given, result>>

\* the network answers or fails the request task i is waiting on
TaskRespond ==
    /\ \E i \in DOMAIN calls : \E o \in TaskOutcomes :
          /\ calls[i].frame.pc = "await"
          /\ calls' = [Step(calls, i, OnOutcome(calls[i].frame, o))
                           EXCEPT ![i].outs = Append(@, o)]
    /\ UNCHANGED <<pyver, client, op, call, wire, given, result>>

\* the backoff sleep of task i ends
TaskWake ==
    /\ \E i \in DOMAIN calls :
          /\ calls[i].frame.pc = "sleep"
          /\ calls' = Step(calls, i, AfterSleep(calls[i].frame))
    /\ UNCHANGED <<pyver, client, op, call, wire, given, result>>

TaskNext ==
    \/ TaskBegin
    \/ TaskAttempt
    \/ TaskRespond
    \/ TaskWake

TaskSpec == TaskInit /\ [][TaskNext]_vars

(***************************************************************************)
(* What the properties read off a state.                                   *)
(***************************************************************************)
\* the requests the current _make_request call has put on the network
Issued == SelectSeq(wire, LAMBDA r : r.url = <<client.base_url>> \o call.endpoint)

AdapterOp == op.name \in OpsOf(client.cls)

FailureKinds == {"transport", "status"}

\* every attempt made so far by the current call failed
AllFailed == \A i \in 1..Len(call.kinds) : call.kinds[i] \in FailureKinds

LastOutcome == call.last[1]

(***************************************************************************)
(* C1.  When attempts 1..k-1 of a _make_request call all fail with a       *)
(* transport error and attempt k returns a success status, exactly k-1     *)
(* backoff sleeps have been made, the sleep after failed attempt i lasts   *)
(* backoff_factor * 2^(i-1), the sleeps strictly increase, and no sleep    *)
(* follows the successful attempt.                                         *)
(***************************************************************************)
C1_BackoffBeforeSuccess ==
    ( /\ call.pc = "returned"
      /\ call.ret # None
      /\ \A i \in 1..(Len(call.kinds) - 1) : call.kinds[i] = "transport" )
    => LET k == call.attempt IN
       /\ k <= call.retries
       /\ Len(Issued) = k
       /\ Len(call.sleeps) = k - 1
       /\ \A i \in 1..(k - 1) :
             /\ call.sleeps[i].after = i
             /\ call.sleeps[i].wait = call.backoff_factor * 2^(i - 1)
       /\ \A i \in 1..(k - 2) : call.sleeps[i].wait < call.sleeps[i + 1].wait

\* maxAttempts = 3, backoffFactor = 1.0 s, transport failures on attempts 1 and 2,
\* success on attempt 3: sleeps of 1.0 s and 2.0 s
C1_Witness ==
    /\ call.pc = "returned"
    /\ call.ret # None
    /\ call.retries = 3
    /\ call.backoff_factor = 2
    /\ call.kinds = <<"transport", "transport", "ok">>
    /\ call.sleeps = <<[after |-> 1, wait |-> 2], [after |-> 2, wait |-> 4]>>

(***************************************************************************)
(* C2.  A response with a status outside the success set never causes a    *)
(* backoff sleep: every sleep follows a transport failure, the call is     *)
(* asleep only right after a transport failure, and a call whose failures  *)
(* are all status failures has made no sleep at all, however it ends.      *)
(***************************************************************************)
C2_NoSleepOnStatusFailure ==
    /\ \A i \in 1..Len(call.sleeps) :
          /\ call.sleeps[i].after \in 1..Len(call.kinds)
          /\ call.kinds[call.sleeps[i].after] = "transport"
    /\ call.pc = "sleep" => call.kinds[Len(call.kinds)] = "transport"
    /\ (\A i \in 1..Len(call.kinds) : call.kinds[i] # "transport")
          => call.sleeps = <<>>
    /\ (call.last # None /\ LastOutcome.kind = "response"
        /\ LastOutcome.status_code \notin {200, 201, 202})
          => /\ call.pc \in {"while", "await", "raised"}
             /\ \A i \in 1..Len(call.sleeps) : call.sleeps[i].after < Len(call.kinds)

\* three status failures in a row, exhaustion, and no sleep
C2_Witness ==
    /\ call.pc = "raised"
    /\ call.retries = 3
    /\ call.kinds = <<"status", "status", "status">>
    /\ call.sleeps = <<>>
    /\ Len(Issued) = 3

(***************************************************************************)
(* C3.  With retries >= 1, when every attempt fails, exactly `retries`     *)
(* requests are issued and the call raises an APIError describing the last *)
(* attempt: its status code and body after a status failure, its exception *)
(* message and no status code after a transport failure; no sleep follows  *)
(* the last attempt.                                                       *)
(***************************************************************************)
C3_ExhaustionReportsLastAttempt ==
    /\ (call.retries >= 1 /\ CallEnded(call) /\ AllFailed) =>
          /\ call.pc = "raised"
          /\ call.exc # None
          /\ call.exc[1].type = "APIError"
          /\ call.attempt = call.retries
          /\ Len(call.kinds) = call.retries
          /\ Len(Issued) = call.retries
          /\ \A i \in 1..Len(call.sleeps) : call.sleeps[i].after < call.retries
          /\ LastOutcome.kind = "response" =>
                /\ call.exc[1].status_code = Some(LastOutcome.status_code)
                /\ call.exc[1].response_text = Some(LastOutcome.text)
          /\ LastOutcome.kind = "RequestError" =>
                /\ call.exc[1].message =
                      <<"Request error after retries: ", LastOutcome.exc>>
                /\ call.exc[1].status_code = None
    /\ (call.retries >= 1 /\ AllFailed /\ Len(call.kinds) = call.retries) =>
          call.pc = "raised"

\* a transport failure, then a 500, then a 400 with a body: the error carries 400
C3_Witness ==
    /\ call.pc = "raised"
    /\ call.retries = 3
    /\ call.kinds = <<"transport", "status", "status">>
    /\ call.exc[1].status_code = Some(400)
    /\ call.exc[1].response_text = Some("{\"id\":\"r1\"}")
    /\ Len(call.sleeps) = 1

(***************************************************************************)
(* C4.  When the _make_request call of an operation of PaddleClient or     *)
(* RazorpayClient raises APIError, the operation does not raise: it        *)
(* returns a result with success = False and error = the error's message.  *)
(***************************************************************************)
C4_APIErrorBecomesResult ==
    [][ ( /\ AdapterOp
          /\ op.pc = "call"
          /\ call.pc = "raised"
          /\ call.exc[1].type = "APIError" )
        => /\ op'.pc = "returned"
           /\ op'.ret # None
           /\ op'.ret[1].success = FALSE
           /\ op'.ret[1].error = Some(call.exc[1].message)
           /\ op'.exc = None ]_vars

\* Paddle's create_plan whose price call failed after the product call succeeded
C4_Witness ==
    /\ client.cls = "PaddleClient"
    /\ op.name = "create_plan"
    /\ op.step = 2
    /\ op.pc = "returned"
    /\ op.ret[1].success = FALSE
    /\ op.ret[1].error = Some(<<"API call failed after retries">>)

(***************************************************************************)
(* C5.  No operation of the adapters lets an exception reach the caller    *)
(* for the three operational faults (transport error after exhaustion,     *)
(* status error after exhaustion, undecodable body on a success status):   *)
(* it returns a result with success = False.                               *)
(***************************************************************************)
C5_NoOperationalFaultEscapes ==
    (AdapterOp /\ op.pc = "raised")
       => op.exc[1].type \notin {"APIError", "JSONDecodeError"}

(***************************************************************************)
(* C6.  Every result returned by an operation of PaddleClient or           *)
(* RazorpayClient has success = False exactly when error is populated and  *)
(* data is absent, and success = True exactly when data is present and     *)
(* error is absent.                                                        *)
(***************************************************************************)
C6_ResultShape ==
    (AdapterOp /\ op.pc = "returned") =>
       LET r == op.ret[1] IN
       /\ r.success \in BOOLEAN
       /\ r.success = FALSE <=> (r.error # None /\ r.data = None)
       /\ r.success = TRUE <=> (r.data # None /\ r.error = None)
       /\ r.error # None => r.error[1] # <<>>

\* Razorpay's create_transaction handing on the failed result of create_customer
C6_Witness ==
    /\ client.cls = "RazorpayClient"
    /\ op.name = "create_transaction"
    /\ op.step = 1
    /\ op.pc = "returned"
    /\ op.ret[1].success = FALSE
    /\ op.ret[1].data = None
    /\ op.ret[1].error # None

(***************************************************************************)
(* C7.  A _make_request call with retries = 0 never completes normally     *)
(* without having issued a request and without a decoded body: it is       *)
(* rejected with an error or makes one attempt.                            *)
(***************************************************************************)
C7_ZeroRetriesRejectedOrSingleAttempt ==
    (call.retries = 0 /\ CallEnded(call)) =>
       \/ call.pc = "raised" /\ wire = <<>>
       \/ Len(Issued) = 1 /\ (call.pc = "returned" => call.ret # None)

(***************************************************************************)
(* C8.  A success status (200, 201, 202) whose body is not JSON ends the   *)
(* call on that attempt: the call raises, no further request is issued     *)
(* and no sleep follows, however many attempts remain.                     *)
(***************************************************************************)
C8_DecodeFailureIsTerminal ==
    ( /\ call.last # None
      /\ LastOutcome.kind = "response"
      /\ LastOutcome.status_code \in {200, 201, 202}
      /\ LastOutcome.text = "<html>Bad Gateway</html>" )
    => /\ call.pc = "raised"
       /\ call.exc[1].type = "JSONDecodeError"
       /\ Len(call.kinds) = call.attempt
       /\ Len(Issued) = call.attempt
       /\ \A i \in 1..Len(call.sleeps) : call.sleeps[i].after < call.attempt
       /\ ~call.conn

\* the first of three attempts answers 200 with an HTML body
C8_Witness ==
    /\ call.pc = "raised"
    /\ call.retries = 3
    /\ call.attempt = 1
    /\ call.kinds = <<"decode">>
    /\ call.sleeps = <<>>
    /\ Len(Issued) = 1

(***************************************************************************)
(* C9.  The headers built at construction depend on (auth_method,          *)
(* api_secret) alone: Basic and Bearer give Authorization =                *)
(* "<Scheme> <secret>", ApiKey gives X-Api-Key = the secret and no         *)
(* Authorization header, and each map holds the JSON Content-Type header   *)
(* and nothing else.                                                       *)
(***************************************************************************)
C9_HeadersOfAuthMethod ==
    LET json_type == "Content-Type" :> <<"application/json">> IN
    /\ client.auth_method = "BASIC" =>
          client.headers =
             ("Authorization" :> <<"Basic", " ", client.api_secret>>) @@ json_type
    /\ client.auth_method = "BEARER" =>
          client.headers =
             ("Authorization" :> <<"Bearer", " ", client.api_secret>>) @@ json_type
    /\ client.auth_method = "API_KEY" =>
          client.headers = ("X-Api-Key" :> <<client.api_secret>>) @@ json_type

(***************************************************************************)
(* C10, as claimed.  The result an operation returns carries the raw       *)
(* decoded body whenever a response was received during the operation,     *)
(* status failures included, and none when no response was received.       *)
(***************************************************************************)
C10_RawResponseWheneverAnswered ==
    (AdapterOp /\ op.pc = "returned") =>
       /\ op.received => op.ret[1].raw_response # None
       /\ ~op.received => op.ret[1].raw_response = None

(***************************************************************************)
(* C10, amended.  The result an operation returns carries raw_response     *)
(* exactly when success = True, and it is then the decoded body of the     *)
(* successful response (for Paddle's create_plan the map of the decoded    *)
(* product and price bodies); a result with success = False carries none,  *)
(* whether or not a response was received.                                 *)
(***************************************************************************)
C10_RawResponseOnSuccessOnly ==
    [][ (AdapterOp /\ op.pc = "call" /\ CallEnded(call)) =>
          LET body == JsonLoads(LastOutcome.text)
              r == op'.ret[1]
          IN
          /\ (op'.pc = "call" /\ op'.product # None) => op'.product = Some(body)
          /\ op'.pc = "returned" =>
                /\ r.success <=> call.pc = "returned"
                /\ r.success <=> r.raw_response # None
                /\ r.success =>
                      r.raw_response =
                         IF client.cls = "PaddleClient" /\ op.name = "create_plan"
                         THEN Some([product |-> op.product[1], price |-> body])
                         ELSE Some(body) ]_vars

\* an operation that got a 400 on its last attempt: a response was received,
\* and the failed result carries no raw_response
C10_Witness ==
    /\ AdapterOp
    /\ op.pc = "returned"
    /\ op.received
    /\ op.ret[1].success = FALSE
    /\ op.ret[1].error = Some(<<"API call failed after retries">>)
    /\ op.ret[1].raw_response = None

\* the requests of the current operation sent to an endpoint, in order
Sent(endpoint) == SelectSeq(wire, LAMBDA r : r.url = <<client.base_url>> \o endpoint)

\* the operation has returned APIResponse(success=False, ...)
ReturnedFailure == op.pc = "returned" /\ ~op.ret[1].success

(***************************************************************************)
(* C11.  Paddle create_plan sends only POST /products and POST /prices     *)
(* requests, every product request before every price request; a price     *)
(* request is sent only once the product call has returned a product, and  *)
(* its body carries the id of that product.  When the product call or the  *)
(* price call fails with APIError the operation returns success=False      *)
(* without data, and after a failed price call (all its attempts used) no   *)
(* further request follows the price requests.                             *)
(***************************************************************************)
C11_PlanProductThenPrice ==
    (client.cls = "PaddleClient" /\ op.name = "create_plan") =>
        LET products == <<client.base_url, "/products">>
            prices == <<client.base_url, "/prices">>
        IN
        /\ \A i \in 1..Len(wire) :
              /\ wire[i].method = "POST"
              /\ wire[i].url \in {products, prices}
              /\ \A j \in 1..Len(wire) :
                    (wire[i].url = products /\ wire[j].url = prices) => i < j
              /\ wire[i].url = prices =>
                    /\ op.step = 2
                    /\ op.product # None
                    /\ HasDataId(op.product[1])
                    /\ wire[i].json[1].product_id = op.product[1].data.id
        /\ op.step = 1 => op.product = None
        /\ ReturnedFailure =>
              /\ op.ret[1].data = None
              /\ op.ret[1].error # None
              /\ call = NoCall
              /\ op.step = 1 => Len(Sent(<<"/prices">>)) = 0
              /\ op.step = 2 =>
                    /\ Len(Sent(<<"/prices">>)) = DefaultRetries
                    /\ wire[Len(wire)].url = prices

\* the product was created, then the price call failed
C11_Witness ==
    /\ client.cls = "PaddleClient"
    /\ op.name = "create_plan"
    /\ ReturnedFailure
    /\ op.step = 2
    /\ Len(Sent(<<"/products">>)) >= 1

(***************************************************************************)
(* C12.  Mapping a member of the BillingCycle enum through an adapter's    *)
(* _map_billing_cycle gives a provider value that no other member maps to  *)
(* (so the provider value leads back to the member), and an input that is  *)
(* neither a member nor a key of the mapping table gives the provider's    *)
(* monthly value.                                                          *)
(***************************************************************************)
C12_CyclesMapOneToOne ==
    given.fn = "_map_billing_cycle" =>
        /\ given.arg \in BillingCycle =>
              \A other \in BillingCycle \ {given.arg} :
                  result # map_billing_cycle(client.cls, other)
        /\ given.arg \in {"quarterly", ""} =>
              result = map_billing_cycle(client.cls, "monthly")

\* a datetime, as datetime.fromtimestamp(..., tz=timezone.utc) builds it
IsDatetime(v) == DOMAIN v = {"epoch", "tzinfo"}

(***************************************************************************)
(* C13.  In the subscription details that get_subscription_details of      *)
(* either adapter returns, created_at and next_billing_date, when present, *)
(* are datetime values: the one absolute-time representation that          *)
(* SubscriptionDetails declares and Razorpay's adapter builds.  No adapter *)
(* hands on the provider's own timestamp value.                            *)
(***************************************************************************)
C13_TimesAreDatetimes ==
    given.fn = "get_subscription_details" =>
        LET details == result.ret[1].data[1] IN
        IF client.cls = "PaddleClient"
        THEN \A f \in {"created_at", "next_billing_date"} :
                 details[f] # None => IsDatetime(details[f][1])
        ELSE /\ IsDatetime(details.created_at)
             /\ IsDatetime(details.next_billing_date)

(***************************************************************************)
(* C14.  PaddleClient._normalize_subscription_details gives a result for   *)
(* every subscription payload, whichever of its fields are absent: all six *)
(* canonical fields are there, a field the payload lacks is None, plan_id  *)
(* is None when the payload has no items key or an empty items list, and   *)
(* otherwise it is the price_id of the first item.                         *)
(***************************************************************************)
C14_PlanIdOfFirstItem ==
    (given.fn = "_normalize_subscription_details" /\ client.cls = "PaddleClient") =>
        LET payload == given.arg IN
        /\ DOMAIN result = {"id", "status", "created_at", "next_billing_date",
                            "plan_id", "customer_id"}
        /\ \A f \in {"id", "status", "created_at", "customer_id"} :
              f \notin DOMAIN payload => result[f] = None
        /\ "next_billed_at" \notin DOMAIN payload => result.next_billing_date = None
        /\ "items" \notin DOMAIN payload => result.plan_id = None
        /\ ("items" \in DOMAIN payload /\ Len(payload.items) = 0) =>
              result.plan_id = None
        /\ ("items" \in DOMAIN payload /\ Len(payload.items) >= 1) =>
              result.plan_id = GetOpt(payload.items[1], "price_id")

\* a payload with two items whose price ids differ
C14_Witness ==
    /\ given.fn = "_normalize_subscription_details"
    /\ client.cls = "PaddleClient"
    /\ "items" \in DOMAIN given.arg
    /\ Len(given.arg.items) = 2
    /\ DOMAIN given.arg = {"items"}
    /\ result.plan_id = Some("pri_2")

\* the provider's identifier field of a decoded create_customer response
CustomerIdField(cls, response) ==
    IF cls = "PaddleClient"
    THEN IF HasDataId(response) THEN Some(response.data.id) ELSE None
    ELSE IF "id" \in DOMAIN response THEN Some(response.id) ELSE None

(***************************************************************************)
(* C15.  create_customer of either adapter, for a user with email e, first *)
(* name f and last name l, sends only POST /customers requests whose body  *)
(* has name = "f l" and email = e; and when its request returns a decoded  *)
(* body that carries the provider's identifier field (data.id for Paddle,  *)
(* id for Razorpay) the operation returns success=True with                *)
(* data = {customer_id: that identifier}.                                  *)
(***************************************************************************)
C15_CreateCustomer ==
    /\ [](AdapterOp /\ op.name = "create_customer" =>
             \A i \in 1..Len(wire) :
                 /\ wire[i].method = "POST"
                 /\ wire[i].url = <<client.base_url, "/customers">>
                 /\ wire[i].json[1].name = <<op.args[1].user.firstName, " ",
                                              op.args[1].user.lastName>>
                 /\ wire[i].json[1].email = op.args[1].user.email)
    /\ [][(/\ AdapterOp
           /\ op.name = "create_customer"
           /\ op.pc = "call"
           /\ call.pc = "returned"
           /\ CustomerIdField(client.cls, call.ret[1]) # None
           /\ op' # op)
          => (/\ op'.pc = "returned"
              /\ op'.ret[1].success
              /\ op'.ret[1].data =
                    Some([customer_id |-> CustomerIdField(client.cls, call.ret[1])]))]_vars

C15_Witness ==
    /\ client.cls = "RazorpayClient"
    /\ op.name = "create_customer"
    /\ op.pc = "returned"
    /\ op.ret[1].success
    /\ op.ret[1].data = Some([customer_id |-> Some("r1")])
    /\ wire[Len(wire)].json[1].name = <<"Cy", " ", "Dee">>

\* a call standing at its loop test or in its sleep, taken on to its next await
Forward(c) ==
    IF c.pc = "sleep" THEN WhileTest(AfterSleep(c))
    ELSE IF c.pc = "while" THEN WhileTest(c)
    ELSE c

\* the frame of a call that runs alone from frame c and gets the outcomes outs
RECURSIVE Alone(_, _)
Alone(c, outs) ==
    LET f == Forward(c) IN
    IF outs = <<>> \/ f.pc # "await"
    THEN f
    ELSE Alone(OnOutcome(f, Head(outs)), Tail(outs))

\* the frame task t entered _make_request with
Entry(t) ==
    NewCall(t.frame.method, t.frame.endpoint, t.frame.json, t.frame.retries,
            t.frame.backoff_factor)

(***************************************************************************)
(* C16.  With several _make_request calls interleaved on one client at     *)
(* their awaits: a call sends a request only from its loop test, when each *)
(* of its earlier requests has been answered and it is not sleeping, and   *)
(* never more than its own `retries` of them; a step of one call leaves    *)
(* the other calls as they were; and at every moment the attempts, sleeps  *)
(* and outcome of a call are those of a call that ran alone with the same  *)
(* policy and got the same outcomes, whatever happened to the others.      *)
(***************************************************************************)
C16_ConcurrentCallsIndependent ==
    /\ [](\A i \in DOMAIN calls :
            LET t == calls[i] IN
            t.frame.pc # "none" =>
                /\ Len(t.sent) = t.frame.attempt
                /\ Len(t.sent) <= t.frame.retries
                /\ Len(t.outs) = Len(t.sent) - (IF t.frame.pc = "await" THEN 1 ELSE 0)
                /\ \A k \in 1..Len(t.sent) : t.sent[k].attempt = k
                /\ Forward(t.frame) = Alone(Entry(t), t.outs))
    /\ [][\A i \in DOMAIN calls :
            /\ calls'[i].sent # calls[i].sent =>
                  /\ calls[i].frame.pc = "while"
                  /\ Len(calls[i].outs) = Len(calls[i].sent)
                  /\ Len(calls'[i].sent) = Len(calls[i].sent) + 1
            /\ calls'[i] # calls[i] =>
                  \A j \in DOMAIN calls \ {i} : calls'[j] = calls[j]]_vars

\* two calls in flight at once: one in its second attempt after a failure, the
\* other asleep after a transport error, each with a policy of its own
C16_Witness ==
    /\ DOMAIN calls # {}
    /\ calls[1].frame.pc = "await"
    /\ calls[1].frame.attempt = 2
    /\ calls[1].frame.retries = 2
    /\ calls[2].frame.pc = "sleep"
    /\ calls[2].frame.retries = DefaultRetries

(***************************************************************************)
(* C17.  Every _make_request call made by an operation of PaddleClient or  *)
(* RazorpayClient runs with the default policy, 3 attempts and a backoff   *)
(* factor of 1.5 s (3 half seconds); when every attempt of such a call     *)
(* fails in transport, exactly 3 requests are sent, with a sleep of 1.5 s  *)
(* after the first and of 3.0 s after the second, and the call raises.     *)
(***************************************************************************)
C17_DefaultPolicy ==
    (AdapterOp /\ call.pc # "none") =>
        /\ call.retries = 3
        /\ call.backoff_factor = 3
        /\ (CallEnded(call) /\ \A i \in 1..Len(call.kinds) : call.kinds[i] = "transport") =>
              /\ call.pc = "raised"
              /\ Len(Issued) = 3
              /\ call.sleeps = <<[after |-> 1, wait |-> 3], [after |-> 2, wait |-> 6]>>

\* the subscription call of Razorpay's create_transaction failing in transport
C17_Witness ==
    /\ client.cls = "RazorpayClient"
    /\ op.name = "create_transaction"
    /\ op.step = 2
    /\ call.pc = "raised"
    /\ call.kinds = <<"transport", "transport", "transport">>
    /\ Len(Issued) = 3

(***************************************************************************)
(* C19.  An attempt of _make_request counts as a success exactly when its  *)
(* status is 200, 201 or 202.  The first such response ends the call on    *)
(* that attempt with no further request, returning the decoded body (the   *)
(* body failing to decode is C8's case).  A response with any other status *)
(* (204, 400, 500) is a failed attempt: the call does not return on it, it *)
(* goes on to the next attempt while attempts remain, and it raises only   *)
(* when that attempt was the last.                                         *)
(***************************************************************************)
C19_SuccessExactlyOn200_201_202 ==
    (call.pc # "none" /\ call.last # None /\ LastOutcome.kind = "response") =>
        /\ LastOutcome.status_code \in {200, 201, 202} =>
              /\ CallEnded(call)
              /\ Len(Issued) = Len(call.kinds)
              /\ \A i \in 1..(Len(call.kinds) - 1) : call.kinds[i] \in FailureKinds
              /\ IsJson(LastOutcome.text) =>
                    /\ call.pc = "returned"
                    /\ call.ret = Some(JsonLoads(LastOutcome.text))
        /\ LastOutcome.status_code \notin {200, 201, 202} =>
              /\ call.kinds[Len(call.kinds)] = "status"
              /\ AllFailed
              /\ call.pc \in {"while", "await", "raised"}
              /\ call.pc = "raised" <=> Len(call.kinds) = call.retries
              /\ call.pc = "await" => Len(Issued) = Len(call.kinds) + 1

\* a 204 was answered to the first attempt, and the second attempt is under way
C19_Witness ==
    /\ call.pc = "await"
    /\ call.attempt = 2
    /\ call.last # None
    /\ LastOutcome.kind = "response"
    /\ LastOutcome.status_code = 204
    /\ Len(Issued) = 2

\* the call is between its entry and its end
CallRunning == call.pc \in {"while", "await", "sleep"}

(***************************************************************************)
(* C20.  A _make_request call with retries >= 1 ends, whatever the network *)
(* does to its attempts: it never sends more than `retries` requests nor   *)
(* sleeps more than retries - 1 times, a running call always comes to an   *)
(* end, and at its end it has sent at least one request and has either     *)
(* returned the decoded body of the last response or raised an error; it   *)
(* never returns without a decoded body.                                   *)
(***************************************************************************)
C20_CallTerminates ==
    /\ []((call.retries >= 1 /\ call.pc # "none") =>
            /\ Len(Issued) <= call.retries
            /\ Len(call.sleeps) <= call.retries - 1
            /\ CallEnded(call) =>
                  /\ Len(Issued) >= 1
                  /\ \/ /\ call.pc = "returned"
                        /\ call.exc = None
                        /\ call.ret # None
                        /\ LastOutcome.kind = "response"
                        /\ call.ret = Some(JsonLoads(LastOutcome.text))
                     \/ /\ call.pc = "raised"
                        /\ call.ret = None
                        /\ call.exc # None)
    /\ (call.retries >= 1 /\ CallRunning) ~> CallEnded(call)

\* every attempt allowed was used and every sleep allowed was slept
C20_Witness ==
    /\ op.name = "_make_request"
    /\ call.retries = 3
    /\ call.pc = "raised"
    /\ Len(Issued) = 3
    /\ Len(call.sleeps) = 2

(***************************************************************************)
(* C21.  The httpx.AsyncClient of an attempt is open only while the        *)
(* request of that attempt is awaited: a connection is opened only when    *)
(* the call holds none, exactly one request is sent on it, and it is       *)
(* closed when the attempt ends, whether in a success, a status failure, a *)
(* transport failure or a decode failure.  So none is open at the loop     *)
(* test, during a backoff sleep, or once the call has returned or raised.  *)
(***************************************************************************)
C21_ConnectionScopedToAttempt ==
    /\ [](/\ call.conn <=> call.pc = "await"
          /\ call.pc \in {"none", "while", "sleep", "returned", "raised"} => ~call.conn
          /\ call.conn => Len(Issued) = call.attempt)
    /\ [][/\ (call'.conn /\ call' # call) =>
                /\ ~call.conn
                /\ call.pc = "while"
                /\ Len(wire') = Len(wire) + 1
          /\ (call.conn /\ call' # call) =>
                /\ ~call'.conn
                /\ Len(call'.kinds) = Len(call.kinds) + 1
                /\ wire' = wire]_vars

\* a transport failure, a sleep, then a success status with an undecodable body
C21_Witness ==
    /\ call.kinds = <<"transport", "decode">>
    /\ call.pc = "raised"
    /\ Len(call.sleeps) = 1
    /\ ~call.conn

(***************************************************************************)
(* C22.  No step of any _make_request call or adapter operation changes    *)
(* the client (its headers, base_url, api_secret, timeout), and every      *)
(* request of every attempt carries the headers _build_headers made at     *)
(* construction, the client's timeout and a url under its base_url.        *)
(***************************************************************************)
C22_ClientImmutable ==
    /\ [](/\ client.headers = _build_headers(client.auth_method, client.api_secret, pyver)
          /\ client.timeout = DefaultTimeout
          /\ \A i \in 1..Len(wire) :
                /\ wire[i].headers = client.headers
                /\ wire[i].timeout = client.timeout
                /\ wire[i].url[1] = client.base_url)
    /\ [][client' = client /\ pyver' = pyver]_vars

\* six requests of one create_transaction, all with the constructed headers
C22_Witness ==
    /\ client.cls = "RazorpayClient"
    /\ op.name = "create_transaction"
    /\ Len(wire) = 6
    /\ "Authorization" \in DOMAIN client.headers
    /\ \A i \in 1..6 : wire[i].headers = client.headers

\* RazorpayClient.create_transaction is the running operation
RazorpayTransaction == client.cls = "RazorpayClient" /\ op.name = "create_transaction"

(***************************************************************************)
(* C23.  RazorpayClient.create_transaction sends only POST /customers and  *)
(* POST /subscriptions requests, the customer requests first.  When the    *)
(* customer call returns, the subscription call is started with the id of  *)
(* the returned customer in its body; when the customer call fails with    *)
(* APIError the operation returns that failure at once, with no            *)
(* subscription request.  When the subscription call fails after the       *)
(* customer was created the operation returns success=False and nothing    *)
(* follows the subscription requests.  An operation that is over has sent  *)
(* at least 1 and at most 2 x 3 requests.                                  *)
(***************************************************************************)
C23_CustomerThenSubscription ==
    /\ [](RazorpayTransaction =>
            LET customers == <<client.base_url, "/customers">>
                subscriptions == <<client.base_url, "/subscriptions">>
            IN
            /\ \A i \in 1..Len(wire) :
                  /\ wire[i].method = "POST"
                  /\ wire[i].url \in {customers, subscriptions}
                  /\ \A j \in 1..Len(wire) :
                        (wire[i].url = customers /\ wire[j].url = subscriptions) => i < j
                  /\ wire[i].url = subscriptions => op.step = 2
            /\ Len(Sent(<<"/customers">>)) <= 3
            /\ Len(Sent(<<"/subscriptions">>)) <= 3
            /\ OpOver => (Len(wire) >= 1 /\ Len(wire) <= 2 * 3)
            /\ ReturnedFailure =>
                  /\ op.ret[1].data = None
                  /\ call = NoCall
                  /\ op.step = 1 => Len(Sent(<<"/subscriptions">>)) = 0
                  /\ op.step = 2 =>
                        /\ Len(Sent(<<"/subscriptions">>)) = 3
                        /\ wire[Len(wire)].url = subscriptions)
    /\ [][(RazorpayTransaction /\ op.pc = "call" /\ op.step = 1 /\ op' # op) =>
            /\ call.pc = "returned" =>
                  /\ op'.step = 2
                  /\ op'.pc = "call"
                  /\ call'.pc = "while"
                  /\ call'.method = "POST"
                  /\ call'.endpoint = <<"/subscriptions">>
                  /\ call'.json[1].customer_id = GetOpt(call.ret[1], "id")
            /\ (call.pc = "raised" /\ call.exc[1].type = "APIError") =>
                  /\ op'.pc = "returned"
                  /\ op'.step = 1
                  /\ ~op'.ret[1].success
                  /\ op'.ret[1].error = Some(StrException(call.exc[1]))
                  /\ call' = NoCall]_vars

\* the customer was created on the third attempt, then the subscription call failed
C23_Witness ==
    /\ RazorpayTransaction
    /\ ReturnedFailure
    /\ op.step = 2
    /\ Len(wire) = 6
    /\ wire[4].json[1].customer_id = Some("r1")

(***************************************************************************)
(* C24.  RazorpayClient._normalize_subscription_details gives a result for *)
(* every subscription payload, whichever of its fields are absent, and in  *)
(* the result next_billing_date is absent (None), not a time, whenever the *)
(* payload has no current_end.                                             *)
(***************************************************************************)
C24_NoNextBillingDateWithoutCurrentEnd ==
    (given.fn = "_normalize_subscription_details" /\ client.cls = "RazorpayClient") =>
        /\ DOMAIN result = {"id", "status", "created_at", "next_billing_date",
                            "plan_id", "customer_id"}
        /\ "current_end" \notin DOMAIN given.arg =>
              /\ ~IsDatetime(result.next_billing_date)
              /\ DOMAIN result.next_billing_date = DOMAIN None

====
